---- MODULE Spec2Model ----
(***************************************************************************)
(* A model of is31fl3731.py: the Matrix driver of the IS31FL3731 LED       *)
(* matrix controller, together with the device it talks to, modelled as a  *)
(* per-bank register store behind the bank-select register 0xFD.           *)
(*                                                                         *)
(* Python values are modelled as integers: True and False are 1 and 0 (a   *)
(* Python bool is an int), and None is the integer None below, which lies  *)
(* outside every range the driver works with.                              *)
(***************************************************************************)
EXTENDS Integers, Sequences, FiniteSets, TLC

\* ---------------------------------------------------------------- constants
_MODE_REGISTER == 0
_FRAME_REGISTER == 1
_AUTOPLAY1_REGISTER == 2
_AUTOPLAY2_REGISTER == 3
_BREATH1_REGISTER == 8
_BREATH2_REGISTER == 9
_AUDIOSYNC_REGISTER == 6
_SHUTDOWN_REGISTER == 10
_CONFIG_BANK == 11
_BANK_ADDRESS == 253
_PICTURE_MODE == 0
_AUTOPLAY_MODE == 8
_AUDIOPLAY_MODE == 24

\* Python's None.
None == -1000

\* Floats are modelled as the integers from FloatBase on (see Float11).
FloatBase == 1000000

\* The dimensions the display is constructed with: Matrix(16, 9, i2c).
width == 16
height == 9

\* The offset of the colour bytes within a picture bank, and the number of
\* rows and bytes per row that fill() writes.
ColorOffset == 36
FillRows == 6
FillRowLen == 24
EnableCols == 18
EnableFrames == 8

\* ---------------------------------------------------------------- bounds
\* The number of driver calls made after construction.
MaxCalls == 2

\* The number of calls of a sequence of frame, pixel and fill calls.
MaxSeqCalls == 3

\* The number of calls two concurrent tasks make between them.
MaxConcCalls == 2

\* ---------------------------------------------------------------- the device
\* The device holds banks 0.._CONFIG_BANK of byte registers below the
\* bank-select register, and the bank-select register itself.
Banks == 0 .. _CONFIG_BANK
Regs == 0 .. (_BANK_ADDRESS - 1)

\* The registers of the device after power-on: all zero.
BlankMem == [b \in Banks |-> [r \in Regs |-> 0]]

\* The driver object and the device before __init__ has run: self._frame is
\* not yet set; trace, err and ret describe the call in progress.
Blank ==
  [mem |-> BlankMem, bank |-> 0, frame |-> None,
   trace |-> <<>>, err |-> "none", ret |-> None]

\* raise: the call ends with the error; nothing after it runs.
Raise(m, e) == [m EXCEPT !.err = e, !.ret = None]

\* Bitwise or of two naturals (Python's |).
RECURSIVE BitOr(_, _)
BitOr(a, b) ==
  IF a = 0 THEN b
  ELSE IF b = 0 THEN a
  ELSE (IF a % 2 = 1 \/ b % 2 = 1 THEN 1 ELSE 0) + 2 * BitOr(a \div 2, b \div 2)

\* Python's a << k.
Shl(a, k) == a * (2 ^ k)

\* The byte the device returns for register reg of the selected bank.
Peek(m, reg) ==
  IF reg = _BANK_ADDRESS THEN m.bank
  ELSE IF m.bank \in Banks /\ reg \in Regs THEN m.mem[m.bank][reg]
  ELSE 0

\* The device's registers after data has been written from register reg on,
\* the register address incrementing with every byte.
RECURSIVE Poke(_, _, _, _)
Poke(mem, bank, reg, data) ==
  IF data = <<>> THEN mem
  ELSE Poke(IF bank \in Banks /\ reg \in Regs
              THEN [mem EXCEPT ![bank][reg] = Head(data)]
              ELSE mem,
            bank, reg + 1, Tail(data))

\* The bank register after the same write: a byte that lands on 0xFD selects.
PokeBank(bank, reg, data) ==
  LET i == _BANK_ADDRESS - reg + 1
  IN  IF i \in 1 .. Len(data) THEN data[i] ELSE bank

\* i2c.writeto_mem(address, reg, data): one bus write.  The trace records the
\* transaction and the bank the device had selected when it arrived.
writeto_mem(m, reg, data) ==
  [m EXCEPT !.mem = Poke(m.mem, m.bank, reg, data),
            !.bank = PokeBank(m.bank, reg, data),
            !.trace = Append(m.trace,
                        [op |-> "w", reg |-> reg, data |-> data, at |-> m.bank]),
            !.ret = None]

\* i2c.readfrom_mem(address, reg, 1)[0]: one bus read of one byte.
readfrom_mem(m, reg) ==
  [m EXCEPT !.trace = Append(m.trace,
                        [op |-> "r", reg |-> reg, data |-> <<Peek(m, reg)>>,
                         at |-> m.bank]),
            !.ret = Peek(m, reg)]

\* ---------------------------------------------------------------- the driver
\* The Python float k / 11, the only floats the driver hands on: the result
\* of "delay /= 11" for an integer delay k (true division).
Float11(k) == FloatBase + k
IsFloat(v) == v >= FloatBase

\* The error bytearray([v]) raises, or "none": a float is no byte (TypeError),
\* and an integer outside 0..255 is none either (ValueError).
BytearrayErr(v) ==
  IF IsFloat(v) THEN "TypeError"
  ELSE IF ~(0 <= v /\ v <= 255) THEN "ValueError"
  ELSE "none"

\* Matrix._bank
_bank(m, bank) ==
  IF bank = None THEN readfrom_mem(m, _BANK_ADDRESS)
  ELSE IF BytearrayErr(bank) # "none" THEN Raise(m, BytearrayErr(bank))
  ELSE writeto_mem(m, _BANK_ADDRESS, <<bank>>)

\* _register without its bank select.
_register_noselect(m, bank, register, value) ==
  IF value = None THEN readfrom_mem(m, register)
  ELSE writeto_mem(m, register, <<value>>)

\* Matrix._register
_register(m, bank, register, value) ==
  LET m1 == _bank(m, bank)
  IN  IF m1.err # "none" THEN m1
      ELSE IF value = None THEN readfrom_mem(m1, register)
      ELSE IF BytearrayErr(value) # "none" THEN Raise(m1, BytearrayErr(value))
      ELSE writeto_mem(m1, register, <<value>>)

\* Matrix._mode
_mode(m, mode) == _register(m, _CONFIG_BANK, _MODE_REGISTER, mode)

\* Matrix.sleep
sleep(m, value) == _register(m, _CONFIG_BANK, _SHUTDOWN_REGISTER, value)

\* Matrix.audio_sync
audio_sync(m, value) == _register(m, _CONFIG_BANK, _AUDIOSYNC_REGISTER, value)

\* frame storing its argument before it checks it.
frame_store_first(m, f, show) ==
  IF f = None THEN [m EXCEPT !.ret = m.frame]
  ELSE IF ~(0 <= f /\ f <= 8) THEN Raise([m EXCEPT !.frame = f], "ValueError")
  ELSE LET m1 == [m EXCEPT !.frame = f, !.ret = None]
       IN  IF show = 1
             THEN [_register(m1, _CONFIG_BANK, _FRAME_REGISTER, f) EXCEPT !.ret = None]
             ELSE m1

\* frame accepting 0..7 only.
frame_upto7(m, f, show) ==
  IF f = None THEN [m EXCEPT !.ret = m.frame]
  ELSE IF ~(0 <= f /\ f <= 7) THEN Raise(m, "ValueError")
  ELSE LET m1 == [m EXCEPT !.frame = f, !.ret = None]
       IN  IF show = 1
             THEN [_register(m1, _CONFIG_BANK, _FRAME_REGISTER, f) EXCEPT !.ret = None]
             ELSE m1

\* Matrix.frame
frame(m, f, show) ==
  IF f = None THEN [m EXCEPT !.ret = m.frame]
  ELSE IF ~(0 <= f /\ f <= 8) THEN Raise(m, "ValueError")
  ELSE LET m1 == [m EXCEPT !.frame = f, !.ret = None]
       IN  IF show = 1
             THEN [_register(m1, _CONFIG_BANK, _FRAME_REGISTER, f) EXCEPT !.ret = None]
             ELSE m1

\* The six row writes of fill, from row on.
RECURSIVE FillRowsFrom(_, _, _)
FillRowsFrom(m, row, data) ==
  IF row >= FillRows THEN m
  ELSE FillRowsFrom(writeto_mem(m, ColorOffset + row * FillRowLen, data),
                    row + 1, data)

\* fill that writes to self._frame whatever frame it is given.
fill_active(m, color, f) ==
  IF ~(0 <= color /\ color <= 255) THEN Raise(m, "ValueError")
  ELSE LET m1 == _bank(m, m.frame)
           data == [i \in 1 .. FillRowLen |-> color]
       IN  IF m1.err # "none" THEN m1
           ELSE [FillRowsFrom(m1, 0, data) EXCEPT !.ret = None]

\* Matrix.fill
fill(m, color, f) ==
  IF ~(0 <= color /\ color <= 255) THEN Raise(m, "ValueError")
  ELSE LET fr == IF f = None THEN m.frame ELSE f
           m1 == _bank(m, fr)
           data == [i \in 1 .. FillRowLen |-> color]
       IN  IF m1.err # "none" THEN m1
           ELSE [FillRowsFrom(m1, 0, data) EXCEPT !.ret = None]

\* pixel writing to index y + x * width while reading x + y * width.
pixel_swapped(m, x, y, color, f) ==
  IF ~(0 <= x /\ x <= width) THEN [m EXCEPT !.ret = None]
  ELSE IF ~(0 <= y /\ y <= height) THEN [m EXCEPT !.ret = None]
  ELSE IF color = None THEN _register(m, m.frame, x + y * width, None)
  ELSE IF ~(0 <= color /\ color <= 255) THEN Raise(m, "ValueError")
  ELSE LET fr == IF f = None THEN m.frame ELSE f
       IN  [_register(m, fr, y + x * width, color) EXCEPT !.ret = None]

\* pixel without the bounds check of y.
pixel_nocheck_y(m, x, y, color, f) ==
  IF ~(0 <= x /\ x <= width) THEN [m EXCEPT !.ret = None]
  ELSE IF color = None THEN _register(m, m.frame, x + y * width, None)
  ELSE IF ~(0 <= color /\ color <= 255) THEN Raise(m, "ValueError")
  ELSE LET fr == IF f = None THEN m.frame ELSE f
       IN  [_register(m, fr, x + y * width, color) EXCEPT !.ret = None]

\* Matrix.pixel
pixel(m, x, y, color, f) ==
  IF ~(0 <= x /\ x <= width) THEN [m EXCEPT !.ret = None]
  ELSE IF ~(0 <= y /\ y <= height) THEN [m EXCEPT !.ret = None]
  ELSE IF color = None THEN _register(m, m.frame, x + y * width, None)
  ELSE IF ~(0 <= color /\ color <= 255) THEN Raise(m, "ValueError")
  ELSE LET fr == IF f = None THEN m.frame ELSE f
       IN  [_register(m, fr, x + y * width, color) EXCEPT !.ret = None]

\* autoplay checking loops and frames before it looks at the delay.
autoplay_check_first(m, delay, loops, frames) ==
  IF ~(0 <= loops /\ loops <= 7) THEN Raise(m, "ValueError")
  ELSE IF ~(0 <= frames /\ frames <= 7) THEN Raise(m, "ValueError")
  ELSE IF delay = 0 THEN [_mode(m, _PICTURE_MODE) EXCEPT !.ret = None]
  ELSE Raise(m, "ValueError")

\* Matrix.autoplay.  delay / 11 is a float: the bounds 1 <= delay / 11 <= 64
\* are 11 <= delay <= 704, and (delay / 11) % 64 is the float
\* (delay % 704) / 11.
autoplay(m, delay, loops, frames) ==
  IF delay = 0 THEN [_mode(m, _PICTURE_MODE) EXCEPT !.ret = None]
  ELSE IF ~(0 <= loops /\ loops <= 7) THEN Raise(m, "ValueError")
  ELSE IF ~(0 <= frames /\ frames <= 7) THEN Raise(m, "ValueError")
  ELSE IF ~(11 <= delay /\ delay <= 704) THEN Raise(m, "ValueError")
  ELSE LET m1 == _register(m, _CONFIG_BANK, _AUTOPLAY1_REGISTER,
                           BitOr(Shl(loops, 4), frames))
           m2 == IF m1.err # "none" THEN m1
                 ELSE _register(m1, _CONFIG_BANK, _AUTOPLAY2_REGISTER,
                                Float11(delay % 704))
           m3 == IF m2.err # "none" THEN m2
                 ELSE _mode(m2, BitOr(_AUTOPLAY_MODE, m2.frame))
       IN  [m3 EXCEPT !.ret = None]

\* The largest e with lo * 2^e <= hi, for 0 < lo <= hi.
RECURSIVE Log2Floor(_, _)
Log2Floor(hi, lo) == IF 2 * lo > hi THEN 0 ELSE 1 + Log2Floor(hi, 2 * lo)

\* int(math.log(v / 26, 2)) for v > 0: int() truncates towards zero.
FadeExp(v) == IF v >= 26 THEN Log2Floor(v, 26) ELSE 0 - Log2Floor(26, v)

\* Matrix.fade.  None / 26 is a TypeError; math.log of a number <= 0 is a
\* ValueError (math domain error).
fade(m, fade_in, fade_out, pause) ==
  LET m1 == IF fade_in = None /\ fade_out = None
              THEN _register(m, _CONFIG_BANK, _BREATH2_REGISTER, 0)
              ELSE m
      fi == IF fade_in = None THEN fade_out ELSE fade_in
      fo == IF fade_in = None THEN fade_out
            ELSE IF fade_out = None THEN fade_in ELSE fade_out
  IN  IF m1.err # "none" THEN m1
      ELSE IF fi = None \/ fo = None THEN Raise(m1, "TypeError")
      ELSE IF fi <= 0 \/ fo <= 0 \/ pause <= 0 THEN Raise(m1, "ValueError")
      ELSE IF ~(0 <= FadeExp(fi) /\ FadeExp(fi) <= 7) THEN Raise(m1, "ValueError")
      ELSE IF ~(0 <= FadeExp(fo) /\ FadeExp(fo) <= 7) THEN Raise(m1, "ValueError")
      ELSE IF ~(0 <= FadeExp(pause) /\ FadeExp(pause) <= 7)
        THEN Raise(m1, "ValueError")
      ELSE LET m2 == _register(m1, _CONFIG_BANK, _BREATH1_REGISTER,
                               BitOr(Shl(FadeExp(fo), 4), FadeExp(fi)))
               m3 == IF m2.err # "none" THEN m2
                     ELSE _register(m2, _CONFIG_BANK, _BREATH2_REGISTER,
                                    BitOr(Shl(1, 4), FadeExp(pause)))
           IN  [m3 EXCEPT !.ret = None]

\* Matrix.audio_play
audio_play(m, value) ==
  IF value = None
    THEN LET m1 == _mode(m, None)
         IN  IF m1.err # "none" THEN m1
             ELSE [m1 EXCEPT !.ret = IF m1.ret = _AUDIOPLAY_MODE THEN 1 ELSE 0]
  ELSE IF value # 0 THEN [_mode(m, _AUDIOPLAY_MODE) EXCEPT !.ret = None]
  ELSE [_mode(m, _PICTURE_MODE) EXCEPT !.ret = None]

\* for col in range(18): self._register(frame, col, 0xff), from col on.
RECURSIVE EnableColsFrom(_, _, _)
EnableColsFrom(m, fr, col) ==
  IF col >= EnableCols THEN m
  ELSE LET m1 == _register(m, fr, col, 255)
       IN  IF m1.err = "none" THEN EnableColsFrom(m1, fr, col + 1) ELSE m1

\* for frame in range(8): ..., from frame fr on.
RECURSIVE EnableFramesFrom(_, _)
EnableFramesFrom(m, fr) ==
  IF fr >= EnableFrames THEN m
  ELSE LET m1 == EnableColsFrom(m, fr, 0)
       IN  IF m1.err = "none" THEN EnableFramesFrom(m1, fr + 1) ELSE m1

\* init that enables the pixels of frames 1..7 only.
init_skip_frame0(m) ==
  LET m1 == _mode(m, _PICTURE_MODE)
      m2 == frame(m1, 0, 1)
      m3 == fill(m2, 0, None)
      m4 == EnableFramesFrom(m3, 1)
  IN  [audio_sync(m4, 0) EXCEPT !.ret = None]

\* Matrix.init
init(m) ==
  LET m1 == _mode(m, _PICTURE_MODE)
      m2 == frame(m1, 0, 1)
      m3 == fill(m2, 0, None)
      m4 == EnableFramesFrom(m3, 0)
  IN  [audio_sync(m4, 0) EXCEPT !.ret = None]

\* ---------------------------------------------------------------- the state
VARIABLES
  mem,      \* the device's registers, by bank
  bankReg,  \* the device's bank-select register
  _frame,   \* self._frame
  call,     \* the last call: its name and arguments
  trace,    \* the bus transactions of the last call
  err,      \* the error the last call raised, or "none"
  ret,      \* the value the last call returned
  prev,     \* the call before the last one, and the error it raised
  lastSel,  \* the frame of the last frame(f) call that succeeded (0 by init)
  ncalls,   \* the number of calls made since construction
  pend,     \* concurrent callers: each task's call in progress, the bus
            \* transactions it has yet to issue and the number it has issued
  bus       \* concurrent callers: the last transaction on the bus

vars ==
  <<mem, bankReg, _frame, call, trace, err, ret, prev, lastSel, ncalls, pend,
    bus>>

\* The tasks that share one Matrix object.
Tasks == {1, 2}

\* A task that is in no call.
Idle == [op |-> "none", args |-> <<>>, steps |-> <<>>, issued |-> 0]

\* No transaction yet.
NoBus == [task |-> 0, op |-> "none", reg |-> 0, at |-> 0, want |-> 0]

\* The driver and device as a call finds them.
Cur ==
  [mem |-> mem, bank |-> bankReg, frame |-> _frame,
   trace |-> <<>>, err |-> "none", ret |-> None]

\* The frame the caller last selected, after call c has ended as m.
Selected(c, m) ==
  IF c.op = "init" THEN 0
  ELSE IF c.op = "frame" /\ c.args[1] # None /\ m.err = "none" THEN c.args[1]
  ELSE lastSel

\* The state a call leaves.
Becomes(c, m) ==
  /\ mem' = m.mem
  /\ bankReg' = m.bank
  /\ _frame' = m.frame
  /\ call' = c
  /\ trace' = m.trace
  /\ err' = m.err
  /\ ret' = m.ret
  /\ prev' = [op |-> call.op, args |-> call.args, err |-> err]
  /\ lastSel' = Selected(c, m)
  /\ ncalls' = ncalls + 1
  /\ UNCHANGED <<pend, bus>>

\* Matrix.__init__: the state after construction.
Init ==
  LET m == init(Blank)
  IN  /\ mem = m.mem
      /\ bankReg = m.bank
      /\ _frame = m.frame
      /\ call = [op |-> "__init__", args |-> <<width, height>>]
      /\ trace = m.trace
      /\ err = m.err
      /\ ret = None
      /\ prev = [op |-> "none", args |-> <<>>, err |-> "none"]
      /\ lastSel = 0
      /\ ncalls = 0
      /\ pend = [t \in Tasks |-> Idle]
      /\ bus = NoBus

\* ---------------------------------------------------------------- the calls
\* frame(frame, show)
FrameInputs ==
  {<<None, 1>>, <<-1, 1>>, <<9, 1>>, <<9, 0>>, <<0, 1>>, <<1, 1>>, <<1, 0>>,
   <<8, 1>>}

\* pixel(x, y, color, frame): reads and writes inside the bounds check, on
\* its edges and outside it, with colours inside and outside 0..255.
PixelInputs ==
  {<<0, 0, None, None>>, <<4, 2, None, None>>, <<16, 9, None, None>>,
   <<0, 1, None, None>>, <<4, 2, None, 1>>, <<17, 0, None, None>>,
   <<0, 0, 7, None>>, <<4, 2, 7, None>>, <<4, 2, 0, None>>,
   <<4, 2, 255, None>>, <<16, 9, 7, None>>, <<16, 0, 7, None>>,
   <<4, 2, 7, 1>>, <<4, 2, 7, 9>>, <<0, 0, 7, 11>>,
   <<4, 2, 256, None>>, <<4, 2, -1, None>>,
   <<17, 0, 7, None>>, <<0, 10, 7, None>>, <<-1, 0, 7, None>>,
   <<0, -1, 7, None>>, <<17, 10, 256, None>>, <<17, 0, 7, 1>>,
   <<0, 10, 7, 9>>}

\* fill(color, frame)
FillInputs ==
  {<<0, None>>, <<7, None>>, <<255, None>>, <<256, None>>, <<-1, None>>,
   <<7, 1>>, <<7, 9>>, <<256, 9>>}

\* autoplay(delay, loops, frames)
AutoplayInputs ==
  {<<0, 0, 0>>, <<0, 8, 9>>, <<0, -1, 3>>, <<110, 1, 2>>, <<704, 7, 7>>,
   <<11, 0, 0>>, <<100, 8, 0>>, <<110, 0, 8>>, <<5, 0, 0>>, <<715, 1, 1>>}

\* fade(fade_in, fade_out, pause)
FadeInputs ==
  {<<None, None, 0>>, <<52, None, 0>>, <<52, None, 26>>, <<None, 104, 52>>,
   <<52, 3328, 26>>, <<10, None, 26>>, <<52, 10, 26>>, <<52, None, 13>>,
   <<20, None, 26>>, <<6656, None, 26>>}

\* sleep(value), audio_sync(value), audio_play(value)
FlagInputs == {None, 0, 1}

FrameCalls(S) ==
  \E a \in S :
    Becomes([op |-> "frame", args |-> a], frame(Cur, a[1], a[2]))

PixelCalls(S) ==
  \E a \in S :
    Becomes([op |-> "pixel", args |-> a], pixel(Cur, a[1], a[2], a[3], a[4]))

FillCalls(S) ==
  \E a \in S :
    Becomes([op |-> "fill", args |-> a], fill(Cur, a[1], a[2]))

CallAutoplay ==
  \E a \in AutoplayInputs :
    Becomes([op |-> "autoplay", args |-> a], autoplay(Cur, a[1], a[2], a[3]))

CallFade ==
  \E a \in FadeInputs :
    Becomes([op |-> "fade", args |-> a], fade(Cur, a[1], a[2], a[3]))

CallSleep ==
  \E v \in FlagInputs :
    Becomes([op |-> "sleep", args |-> <<v>>], sleep(Cur, v))

CallAudioSync ==
  \E v \in FlagInputs :
    Becomes([op |-> "audio_sync", args |-> <<v>>], audio_sync(Cur, v))

CallAudioPlay ==
  \E v \in FlagInputs :
    Becomes([op |-> "audio_play", args |-> <<v>>], audio_play(Cur, v))

CallInit ==
  Becomes([op |-> "init", args |-> <<>>], init(Cur))

CallFrame == FrameCalls(FrameInputs)

CallPixel == PixelCalls(PixelInputs)

CallFill == FillCalls(FillInputs)

\* Any call of the driver, up to MaxCalls calls.
Next ==
  /\ ncalls < MaxCalls
  /\ \/ CallFrame
     \/ CallPixel
     \/ CallFill
     \/ CallAutoplay
     \/ CallFade
     \/ CallSleep
     \/ CallAudioSync
     \/ CallAudioPlay
     \/ CallInit

Spec == Init /\ [][Next]_vars

\* Sequences of frame, pixel and fill calls with valid arguments, up to
\* MaxSeqCalls calls: what a pixel read returns after earlier calls.
SeqFrameInputs == {<<1, 1>>, <<8, 0>>, <<9, 1>>}

SeqPixelInputs ==
  {<<0, 0, None, None>>, <<4, 2, None, None>>, <<16, 9, None, None>>,
   <<0, 1, None, None>>, <<4, 2, None, 1>>,
   <<0, 0, 7, None>>, <<4, 2, 7, None>>, <<4, 2, 255, None>>,
   <<16, 9, 7, None>>, <<16, 0, 7, None>>, <<4, 2, 9, 1>>}

SeqFillInputs == {<<7, None>>, <<0, None>>, <<9, 1>>}

SeqFrame == FrameCalls(SeqFrameInputs)

SeqPixel == PixelCalls(SeqPixelInputs)

SeqFill == FillCalls(SeqFillInputs)

NextSeq ==
  /\ ncalls < MaxSeqCalls
  /\ \/ SeqFrame
     \/ SeqPixel
     \/ SeqFill

SpecSeq == Init /\ [][NextSeq]_vars

\* ---------------------------------------------------------------- two tasks
\* Two tasks call frame, pixel and fill on the same Matrix object.  The
\* driver takes no lock, so the tasks interleave between bus transactions.
\* The transactions of these three calls do not depend on what the device
\* returns, and self._frame is read or written before the first of them:
\* they are the transactions the call issues when run from the state it
\* starts in, and each is meant for the bank the call selected before it.
Steps(tr) ==
  [i \in DOMAIN tr |->
     [op |-> tr[i].op, reg |-> tr[i].reg,
      data |-> IF tr[i].op = "w" THEN tr[i].data ELSE <<>>,
      want |-> tr[i].at]]

\* Task t enters call c, which run on its own would end as m.
Begin(t, c, m) ==
  /\ ncalls < MaxConcCalls
  /\ pend[t].steps = <<>>
  /\ pend' = [pend EXCEPT ![t] =
                [op |-> c.op, args |-> c.args, steps |-> Steps(m.trace),
                 issued |-> 0]]
  /\ _frame' = m.frame
  /\ ncalls' = ncalls + 1
  /\ UNCHANGED <<mem, bankReg, call, trace, err, ret, prev, lastSel, bus>>

BeginFrame(t) ==
  \E a \in SeqFrameInputs :
    Begin(t, [op |-> "frame", args |-> a], frame(Cur, a[1], a[2]))

BeginPixel(t) ==
  \E a \in SeqPixelInputs :
    Begin(t, [op |-> "pixel", args |-> a], pixel(Cur, a[1], a[2], a[3], a[4]))

BeginFill(t) ==
  \E a \in SeqFillInputs :
    Begin(t, [op |-> "fill", args |-> a], fill(Cur, a[1], a[2]))

\* Task t issues the next bus transaction of its call.
BusStep(t) ==
  /\ pend[t].steps # <<>>
  /\ LET s == Head(pend[t].steps)
     IN  /\ mem' = IF s.op = "w" THEN Poke(mem, bankReg, s.reg, s.data) ELSE mem
         /\ bankReg' = IF s.op = "w" THEN PokeBank(bankReg, s.reg, s.data)
                        ELSE bankReg
         /\ bus' = [task |-> t, op |-> s.op, reg |-> s.reg, at |-> bankReg,
                     want |-> s.want]
  /\ pend' = [pend EXCEPT ![t].steps = Tail(@), ![t].issued = @ + 1]
  /\ UNCHANGED <<_frame, call, trace, err, ret, prev, lastSel, ncalls>>

NextConc ==
  \E t \in Tasks :
    \/ BeginFrame(t)
    \/ BeginPixel(t)
    \/ BeginFill(t)
    \/ BusStep(t)

SpecConc == Init /\ [][NextConc]_vars

\* ---------------------------------------------------------------- the claims
\* The bounds check of pixel accepts (x, y).
Accepted(x, y) == 0 <= x /\ x <= width /\ 0 <= y /\ y <= height

\* (x, y) lies on the grid of the display.
InBounds(x, y) == 0 <= x /\ x < width /\ 0 <= y /\ y < height

\* Transaction i of the last call selects a bank.
IsSelect(i) == trace[i].op = "w" /\ trace[i].reg = _BANK_ADDRESS

\* C1: a pixel write with accepted coordinates, a colour in 0..255 and the
\* default frame, immediately followed by a read of the same pixel with the
\* default frame, makes the read return the colour written.
C1_PixelRoundTrip ==
  ( /\ prev.op = "pixel"
    /\ prev.err = "none"
    /\ Accepted(prev.args[1], prev.args[2])
    /\ prev.args[3] \in 0 .. 255
    /\ prev.args[4] = None
    /\ call.op = "pixel"
    /\ call.args = <<prev.args[1], prev.args[2], None, None>> )
  => (err = "none" /\ ret = prev.args[3])

\* A read of pixel (16, 9) of frame 1 right after 7 was written to it.
C1_Witness ==
  /\ prev.op = "pixel"
  /\ prev.args = <<16, 9, 7, None>>
  /\ call.op = "pixel"
  /\ call.args = <<16, 9, None, None>>
  /\ _frame = 1
  /\ ret = 7

\* C2 as stated: after fill(c) on the active frame, a read of any pixel on
\* the grid returns c.
C2_FillThenRead ==
  ( /\ prev.op = "fill"
    /\ prev.err = "none"
    /\ prev.args[1] \in 0 .. 255
    /\ prev.args[2] = None
    /\ call.op = "pixel"
    /\ call.args[3] = None
    /\ call.args[4] = None
    /\ InBounds(call.args[1], call.args[2]) )
  => (err = "none" /\ ret = prev.args[1])

\* The arguments a lie outside the bounds check of pixel.
OutOfBounds(a) == a[1] > width \/ a[2] > height \/ a[1] < 0 \/ a[2] < 0

\* C3: a pixel call with coordinates outside the bounds check, whatever its
\* colour and frame, issues no bus transaction, raises nothing, returns
\* nothing and leaves self._frame and the device as they were.
C3_OutOfBoundsNoOp ==
  [][ (call'.op = "pixel" /\ OutOfBounds(call'.args))
      => ( /\ trace' = <<>>
           /\ err' = "none"
           /\ ret' = None
           /\ mem' = mem
           /\ bankReg' = bankReg
           /\ _frame' = _frame ) ]_vars

\* A pixel call outside the bounds check with a colour outside 0..255 has
\* returned without an error.
C3_Witness ==
  /\ call.op = "pixel"
  /\ call.args = <<17, 10, 256, None>>
  /\ trace = <<>>
  /\ err = "none"

\* The bank access i of init is meant for: the configuration bank for the
\* mode, frame and audio-sync registers, frame 0 for the fill, and frame
\* 0..7 in turn for the 18 enable bytes of each.
InitBank(i) ==
  IF i <= 4 \/ i > 11 + 2 * EnableFrames * EnableCols THEN _CONFIG_BANK
  ELSE IF i <= 5 + FillRows THEN 0
  ELSE (i - 12) \div (2 * EnableCols)

\* The bank access i of the last call is meant for.
Intended(i) ==
  IF call.op \in {"init", "__init__"} THEN InitBank(i)
  ELSE IF call.op = "pixel"
    THEN IF call.args[3] = None \/ call.args[4] = None THEN _frame
         ELSE call.args[4]
  ELSE IF call.op = "fill"
    THEN IF call.args[2] = None THEN _frame ELSE call.args[2]
  ELSE _CONFIG_BANK

\* C4: every bus access of a call to a register other than 0xFD comes after
\* a write of the bank it is meant for to 0xFD in the same call, with no
\* other bank selected in between, and finds the device on that bank.
C4_BankSelected ==
  \A i \in DOMAIN trace :
    trace[i].reg # _BANK_ADDRESS =>
      /\ trace[i].at = Intended(i)
      /\ \E j \in 1 .. (i - 1) :
            /\ IsSelect(j)
            /\ trace[j].data = <<Intended(i)>>
            /\ \A k \in (j + 1) .. (i - 1) : ~IsSelect(k)

\* A fill of frame 1 while frame 0 is active has made its six row writes.
C4_Witness ==
  /\ call.op = "fill"
  /\ call.args = <<7, 1>>
  /\ _frame = 0
  /\ Len(trace) = 1 + FillRows
  /\ trace[Len(trace)].at = 1

\* The last call was pixel or fill without a frame argument and went on to
\* the bus.
DefaultTarget ==
  /\ trace # <<>>
  /\ \/ call.op = "pixel" /\ call.args[4] = None
     \/ call.op = "fill" /\ call.args[2] = None

\* C5 as stated: with two tasks calling the driver at once, the bus
\* transactions of a call are not interleaved with those of another call, so
\* that every register access finds the device on the bank its own call
\* selected for it, never on a bank the other call selected.
C5_BusExclusive ==
  (bus.op # "none" /\ bus.reg # _BANK_ADDRESS) => bus.at = bus.want

\* C6: self._frame changes only in a frame(f) call that succeeds, which sets
\* it to f, and in init, which sets it to 0; every other call and a failed
\* frame call leave it alone; and a pixel or fill call without a frame
\* argument selects the bank of the last frame(f) call that succeeded.
C6_FramePersists ==
  [][ /\ _frame' # _frame =>
           \/ call'.op = "init" /\ _frame' = 0
           \/ /\ call'.op = "frame"
              /\ err' = "none"
              /\ call'.args[1] # None
              /\ _frame' = call'.args[1]
      /\ (call'.op \notin {"frame", "init"} \/ err' # "none") => _frame' = _frame
      /\ DefaultTarget' =>
           /\ IsSelect(1)'
           /\ trace'[1].data = <<lastSel'>>
           /\ _frame' = lastSel' ]_vars

\* A fill without a frame argument has selected bank 1 right after
\* frame(1, show=False).
C6_Witness ==
  /\ call.op = "fill"
  /\ call.args = <<7, None>>
  /\ prev.op = "frame"
  /\ prev.args = <<1, 0>>
  /\ lastSel = 1
  /\ IsSelect(1)
  /\ trace[1].data = <<1>>

\* C7: frame(f) with f outside 0..8 raises ValueError, issues no bus
\* transaction and leaves self._frame alone; with f in 0..8 it sets
\* self._frame to f and, when show is true, writes f to the frame register of
\* the configuration bank and nothing else, and with show false it issues no
\* bus transaction; so self._frame stays within 0..8.
C7_FrameValidation ==
  [][ /\ (call'.op = "frame" /\ call'.args[1] # None) =>
           IF call'.args[1] \in 0 .. 8
             THEN /\ err' = "none"
                  /\ _frame' = call'.args[1]
                  /\ IF call'.args[2] = 1
                       THEN /\ Len(trace') = 2
                            /\ IsSelect(1)'
                            /\ trace'[1].data = <<_CONFIG_BANK>>
                            /\ trace'[2].op = "w"
                            /\ trace'[2].reg = _FRAME_REGISTER
                            /\ trace'[2].data = <<call'.args[1]>>
                            /\ mem'[_CONFIG_BANK][_FRAME_REGISTER] = call'.args[1]
                       ELSE trace' = <<>> /\ mem' = mem /\ bankReg' = bankReg
             ELSE /\ err' = "ValueError"
                  /\ trace' = <<>>
                  /\ _frame' = _frame
                  /\ mem' = mem
                  /\ bankReg' = bankReg
      /\ _frame' \in 0 .. 8 ]_vars

\* frame(8) has succeeded and shown frame 8 after frame 1 was shown.
C7_Witness ==
  /\ call.op = "frame"
  /\ call.args = <<8, 1>>
  /\ prev.op = "frame"
  /\ prev.args = <<1, 1>>
  /\ _frame = 8
  /\ mem[_CONFIG_BANK][_FRAME_REGISTER] = 8

\* Some argument of call c lies outside its documented range: a colour
\* outside 0..255, a frame outside 0..8, loops or frames outside 0..7, a
\* delay outside 1..64 units of 11 ms, a fade or pause time whose exponent
\* lies outside 0..7.  The two documented exceptions are left out: a pixel
\* outside the bounds check, and autoplay with a delay of 0.
RangeViolated(c) ==
  \/ c.op = "frame" /\ c.args[1] # None /\ c.args[1] \notin 0 .. 8
  \/ /\ c.op = "pixel"
     /\ Accepted(c.args[1], c.args[2])
     /\ \/ c.args[3] # None /\ c.args[3] \notin 0 .. 255
        \/ c.args[4] # None /\ c.args[4] \notin 0 .. 8
  \/ /\ c.op = "fill"
     /\ \/ c.args[1] \notin 0 .. 255
        \/ c.args[2] # None /\ c.args[2] \notin 0 .. 8
  \/ /\ c.op = "autoplay"
     /\ c.args[1] # 0
     /\ \/ c.args[2] \notin 0 .. 7
        \/ c.args[3] \notin 0 .. 7
        \/ c.args[1] < 11
        \/ c.args[1] > 704
  \/ /\ c.op = "fade"
     /\ \E i \in 1 .. 3 :
          c.args[i] # None /\ c.args[i] > 0 /\ FadeExp(c.args[i]) \notin 0 .. 7

\* C8 as stated: a call with an argument outside its documented range
\* raises ValueError without any bus transaction, and leaves the device
\* and self._frame as they were.
C8_RangeErrorBeforeBus ==
  [][ RangeViolated(call') =>
        /\ err' = "ValueError"
        /\ trace' = <<>>
        /\ mem' = mem
        /\ bankReg' = bankReg
        /\ _frame' = _frame ]_vars

\* C9: autoplay with a delay of 0 writes 0 to the mode register of the
\* configuration bank and nothing else, whatever loops and frames are, and
\* raises nothing.
C9_AutoplayDisable ==
  (call.op = "autoplay" /\ call.args[1] = 0) =>
    /\ err = "none"
    /\ Len(trace) = 2
    /\ IsSelect(1)
    /\ trace[1].data = <<_CONFIG_BANK>>
    /\ trace[2].op = "w"
    /\ trace[2].reg = _MODE_REGISTER
    /\ trace[2].data = <<_PICTURE_MODE>>
    /\ mem[_CONFIG_BANK][_MODE_REGISTER] = _PICTURE_MODE

\* autoplay(0, 8, 9) has put the device back into picture mode right after
\* audio_play(True).
C9_Witness ==
  /\ call.op = "autoplay"
  /\ call.args = <<0, 8, 9>>
  /\ prev.op = "audio_play"
  /\ prev.args = <<1>>
  /\ err = "none"
  /\ mem[_CONFIG_BANK][_MODE_REGISTER] = _PICTURE_MODE

\* C10 as stated: autoplay with a delay of 11..704 ms, loops and frames in
\* 0..7 raises nothing and writes, in this order, loops << 4 | frames to
\* autoplay register 1, the delay units mod 64 to autoplay register 2 and
\* 0x08 | self._frame to the mode register.
C10_AutoplayEnable ==
  ( /\ call.op = "autoplay"
    /\ call.args[1] \in 11 .. 704
    /\ call.args[2] \in 0 .. 7
    /\ call.args[3] \in 0 .. 7 )
  => /\ err = "none"
     /\ Len(trace) = 6
     /\ trace[2].reg = _AUTOPLAY1_REGISTER
     /\ trace[2].data = <<BitOr(Shl(call.args[2], 4), call.args[3])>>
     /\ trace[4].reg = _AUTOPLAY2_REGISTER
     /\ trace[4].data = <<(call.args[1] \div 11) % 64>>
     /\ trace[6].reg = _MODE_REGISTER
     /\ trace[6].data = <<BitOr(_AUTOPLAY_MODE, _frame)>>
     /\ mem[_CONFIG_BANK][_MODE_REGISTER] = BitOr(_AUTOPLAY_MODE, _frame)

\* The mode register of the device.
ModeReg == mem[_CONFIG_BANK][_MODE_REGISTER]

\* The values the mode register denotes a display mode with: picture mode,
\* autoplay from a start frame, audio play.
Modes ==
  {_PICTURE_MODE, _AUDIOPLAY_MODE} \cup {BitOr(_AUTOPLAY_MODE, f) : f \in 0 .. 8}

\* C11 as stated: the mode register holds PICTURE after init, always holds
\* PICTURE, AUTOPLAY | frame or AUDIOPLAY, and frame, pixel, fill, fade,
\* sleep and audio_sync never change it, whatever their arguments.
C11_ModeMachine ==
  [][ /\ ModeReg' \in Modes
      /\ call'.op \in {"init", "__init__"} => ModeReg' = _PICTURE_MODE
      /\ call'.op \in {"frame", "pixel", "fill", "fade", "sleep", "audio_sync"}
           => ModeReg' = ModeReg ]_vars

\* The last call was fade; an argument the caller leaves out is None
\* (fade_in, fade_out) or 0 (pause).
FadeCall == call.op = "fade"

\* C12 as stated: fade() with fade_in and fade_out both left out writes 0 to
\* breath register 2 of the configuration bank, writes nothing else and
\* returns without an error.
C12_FadeDisable ==
  (FadeCall /\ call.args[1] = None /\ call.args[2] = None) =>
    /\ err = "none"
    /\ Len(trace) = 2
    /\ IsSelect(1)
    /\ trace[1].data = <<_CONFIG_BANK>>
    /\ trace[2].op = "w"
    /\ trace[2].reg = _BREATH2_REGISTER
    /\ trace[2].data = <<0>>

\* The smallest e with lo * 2^e >= hi, for 0 < lo <= hi.
RECURSIVE Log2Ceil(_, _)
Log2Ceil(hi, lo) == IF lo >= hi THEN 0 ELSE 1 + Log2Ceil(hi, 2 * lo)

\* floor(log2(v / 26)) for v > 0.
FloorExp(v) == IF v >= 26 THEN Log2Floor(v, 26) ELSE 0 - Log2Ceil(26, v)

\* The times fade works with: a missing fade time takes the other's value.
FadeIn == IF call.args[1] = None THEN call.args[2] ELSE call.args[1]
FadeOut == IF call.args[2] = None THEN call.args[1] ELSE call.args[2]
FadePause == call.args[3]

\* The last call was fade with at least one fade time, and all its times
\* positive.
FadeEnabling ==
  /\ FadeCall
  /\ (call.args[1] # None \/ call.args[2] # None)
  /\ FadeIn > 0
  /\ FadeOut > 0
  /\ FadePause > 0

\* The last call wrote fo << 4 | fi to breath register 1 and 0x10 | p to
\* breath register 2, and nothing else.
FadeWrote(fi, fo, p) ==
  /\ err = "none"
  /\ Len(trace) = 4
  /\ IsSelect(1)
  /\ trace[1].data = <<_CONFIG_BANK>>
  /\ trace[2].op = "w"
  /\ trace[2].reg = _BREATH1_REGISTER
  /\ trace[2].data = <<BitOr(Shl(fo, 4), fi)>>
  /\ IsSelect(3)
  /\ trace[3].data = <<_CONFIG_BANK>>
  /\ trace[4].op = "w"
  /\ trace[4].reg = _BREATH2_REGISTER
  /\ trace[4].data = <<BitOr(16, p)>>

\* C13 as stated: fade with positive times turns each into
\* e = floor(log2(time / 26)), raises ValueError without bus traffic exactly
\* when some e lies outside 0..7 (so for every time below 26 ms), and
\* otherwise writes fade_out_e << 4 | fade_in_e and 0x10 | pause_e to the
\* breath registers.
C13_FadeEnable ==
  FadeEnabling =>
    IF \A v \in {FadeIn, FadeOut, FadePause} : FloorExp(v) \in 0 .. 7
      THEN FadeWrote(FloorExp(FadeIn), FloorExp(FadeOut), FloorExp(FadePause))
      ELSE err = "ValueError" /\ trace = <<>>

\* C14 as stated: fade with fade times whose exponents lie in 0..7 and with
\* pause left at its default of 0 raises nothing and writes both breath
\* registers, breath register 2 with bit 0x10 set.
C14_FadeDefaultPause ==
  ( /\ FadeCall
    /\ (call.args[1] # None \/ call.args[2] # None)
    /\ FadePause = 0
    /\ FadeIn > 0
    /\ FadeOut > 0
    /\ FloorExp(FadeIn) \in 0 .. 7
    /\ FloorExp(FadeOut) \in 0 .. 7 )
  => /\ err = "none"
     /\ Len(trace) = 4
     /\ trace[2].reg = _BREATH1_REGISTER
     /\ trace[2].data = <<BitOr(Shl(FloorExp(FadeOut), 4), FloorExp(FadeIn))>>
     /\ trace[4].reg = _BREATH2_REGISTER
     /\ (trace[4].data[1] \div 16) % 2 = 1

\* C15 as stated: sleep(enable) writes the negation of enable to the
\* shutdown register of the configuration bank: 0 for sleep(True), 1 for
\* sleep(False).
C15_SleepPolarity ==
  (call.op = "sleep" /\ call.args[1] \in {0, 1}) =>
    /\ err = "none"
    /\ Len(trace) = 2
    /\ IsSelect(1)
    /\ trace[1].data = <<_CONFIG_BANK>>
    /\ trace[2].op = "w"
    /\ trace[2].reg = _SHUTDOWN_REGISTER
    /\ trace[2].data = <<1 - call.args[1]>>

\* C16 as stated: a pixel write with accepted coordinates, a colour in 0..255
\* and an explicit frame g in 0..8, immediately followed by a read of the same
\* pixel with the same explicit frame, makes the read return the colour
\* written, also when g is not self._frame.
C16_PixelReadFrame ==
  ( /\ prev.op = "pixel"
    /\ prev.err = "none"
    /\ Accepted(prev.args[1], prev.args[2])
    /\ prev.args[3] \in 0 .. 255
    /\ prev.args[4] \in 0 .. 8
    /\ call.op = "pixel"
    /\ call.args = <<prev.args[1], prev.args[2], None, prev.args[4]>> )
  => (err = "none" /\ ret = prev.args[3])

\* Every enable byte of every picture frame is 0xff.
AllEnabled ==
  \A f \in 0 .. EnableFrames - 1 : \A c \in 0 .. EnableCols - 1 : mem[f][c] = 255

\* C17: when init has run, at construction or later, it has raised nothing,
\* the mode register holds picture mode, self._frame and the frame register
\* are 0, all 18 enable bytes of each of the frames 0..7 are 0xff and the
\* audio-sync register is 0.
C17_InitPostcondition ==
  call.op \in {"init", "__init__"} =>
    /\ err = "none"
    /\ ModeReg = _PICTURE_MODE
    /\ _frame = 0
    /\ mem[_CONFIG_BANK][_FRAME_REGISTER] = 0
    /\ AllEnabled
    /\ mem[_CONFIG_BANK][_AUDIOSYNC_REGISTER] = 0

\* init has run right after pixel(0, 0, 7) overwrote an enable byte of
\* frame 0.
C17_Witness ==
  /\ call.op = "init"
  /\ prev.op = "pixel"
  /\ prev.args = <<0, 0, 7, None>>
  /\ prev.err = "none"

\* The frame the fill call of the next state writes to.
FillTarget == IF call'.args[2] = None THEN _frame ELSE call'.args[2]

\* C19: fill with a colour c in 0..255 and a frame g that is omitted
\* (g = self._frame) or names a bank other than the configuration bank
\* selects bank g once, writes c to the registers 0x24..0xb3 of bank g in six
\* chunks of 24 bytes, and leaves every other register of the device and
\* self._frame as they were.
C19_FillEffect ==
  [][ ( /\ call'.op = "fill"
        /\ call'.args[1] \in 0 .. 255
        /\ FillTarget \in Banks \ {_CONFIG_BANK} )
      => ( /\ err' = "none"
           /\ _frame' = _frame
           /\ Len(trace') = 1 + FillRows
           /\ trace'[1].op = "w"
           /\ trace'[1].reg = _BANK_ADDRESS
           /\ trace'[1].data = <<FillTarget>>
           /\ \A row \in 0 .. FillRows - 1 :
                /\ trace'[row + 2].op = "w"
                /\ trace'[row + 2].reg = ColorOffset + row * FillRowLen
                /\ trace'[row + 2].data = [i \in 1 .. FillRowLen |-> call'.args[1]]
           /\ mem' = [mem EXCEPT ![FillTarget] =
                        [r \in Regs |->
                          IF ColorOffset <= r /\ r < ColorOffset + FillRows * FillRowLen
                            THEN call'.args[1]
                            ELSE mem[FillTarget][r]]] ) ]_vars

\* fill(7, frame=1) has run while self._frame was 0.
C19_Witness ==
  /\ call.op = "fill"
  /\ call.args = <<7, 1>>
  /\ _frame = 0
  /\ err = "none"
  /\ mem[1][ColorOffset] = 7
  /\ mem[0][ColorOffset] = 0

\* Every blink byte (registers 0x12..0x23) of every picture frame is 0, the
\* value it has after init.
BlinkIntact ==
  \A f \in 0 .. EnableFrames - 1 :
    \A r \in EnableCols .. ColorOffset - 1 : mem[f][r] = 0

\* The frame the pixel call of the next state writes to.
PixelTarget == IF call'.args[4] = None THEN _frame ELSE call'.args[4]

\* C18 as stated: whatever is called after init, every enable byte of every
\* picture frame stays 0xff and every blink byte stays as it was, and a pixel
\* write with accepted coordinates changes at most the colour byte
\* 0x24 + x + y * width of its target frame.
C18_EnablePreserved ==
  [][ /\ AllEnabled'
      /\ BlinkIntact'
      /\ ( /\ call'.op = "pixel"
            /\ Accepted(call'.args[1], call'.args[2])
            /\ call'.args[3] \in 0 .. 255
            /\ PixelTarget \in 0 .. 8 )
          => \A b \in Banks : \A r \in Regs :
               (mem'[b][r] # mem[b][r]) =>
                 /\ b = PixelTarget
                 /\ r = ColorOffset + call'.args[1] + call'.args[2] * width ]_vars

\* The coordinates the bounds check of pixel accepts.
AcceptedCoords == (0 .. width) \X (0 .. height)

\* C20 as stated: a pixel write with accepted coordinates (x, y) and the
\* default frame leaves the value pixel(x2, y2) returns as it was, for every
\* other accepted (x2, y2), and the index x + y * width of (x, y) is below
\* the 144 pixels of a frame.
C20_NoAliasing ==
  [][ ( /\ call'.op = "pixel"
        /\ Accepted(call'.args[1], call'.args[2])
        /\ call'.args[3] \in 0 .. 255
        /\ call'.args[4] = None
        /\ err' = "none" )
      => /\ call'.args[1] + call'.args[2] * width < FillRows * FillRowLen
         /\ \A p \in AcceptedCoords \ {<<call'.args[1], call'.args[2]>>} :
              pixel(Cur, p[1], p[2], None, None).ret
                = pixel(Cur, p[1], p[2], None, None).ret' ]_vars

====
